---------------------------- MODULE Spec2Model ----------------------------
(***************************************************************************)
(* HoopsTrack: basketball games, rosters and box-score statistics.         *)
(*                                                                         *)
(* The store (users, teams, games, performances, team performances), the   *)
(* REST view sets and the Django admin that write it, the permission       *)
(* classes, and the derived statistics of one record.                      *)
(*                                                                         *)
(* Conventions.                                                            *)
(*   - A nullable integer column holds None (-1) or a number >= 0; a       *)
(*     nullable reference holds NoUser or an identifier.                   *)
(*   - A percentage is a float with one decimal in the code; here it is    *)
(*     the integer number of tenths (70.0 is 700), or None.                *)
(*   - A table is a function from the primary keys of its rows to the      *)
(*     rows; primary keys come from an auto-increment counter.             *)
(***************************************************************************)
EXTENDS Integers, FiniteSets, Sequences, TLC

VARIABLES
    role,               \* users.User.role of every user
    users,              \* users.User rows: the other columns
    players,            \* teams.Player rows: user, team, jersey number
    teams,              \* teams.Team rows: coach and staff
    games,              \* stats.Game rows
    performances,       \* stats.Performance rows
    team_performances,  \* stats.TeamPerformance rows
    next_id,            \* auto-increment primary key of each table
    requests,           \* requests in flight, one slot per client connection
    response,           \* the response to the request handled last
    calc                \* one record under the Stat Calculator, and its result

vars == <<role, users, players, teams, games, performances, team_performances, next_id,
          requests, response, calc>>

-----------------------------------------------------------------------------
(* Bounds of the model *)

MaxCount == 16      \* raw counts of the record under the calculator: 0..MaxCount
MaxScore == 1       \* scores entered for a game: 0..MaxScore
MaxGames == 1       \* primary keys handed out for games
MaxRows == 2        \* primary keys handed out per performance table
MaxRequests == 2    \* requests in flight at the same time
MaxJersey == 2      \* jersey numbers entered for a player: 1..MaxJersey

None == -1
NoUser == "None"
NoTeam == "None"

-----------------------------------------------------------------------------
(* users.User *)

PLAYER == "player"
COACH == "coach"
STATISTICIAN == "statistician"

\* ROLE_CHOICES holds three roles; the column itself is a free string, and the
\* tests and the permission classes speak of a fourth role, 'admin'.
ROLE_CHOICES == {PLAYER, COACH, STATISTICIAN}
ADMIN_ROLE == "admin"

Users == {"stat", "player", "player2", "coach", "admin"}
AnonymousUser == "anonymous"
Principals == Users \cup {AnonymousUser}

InitRole == [u \in Users |->
               CASE u = "stat" -> STATISTICIAN
                 [] u \in {"player", "player2"} -> PLAYER
                 [] u = "coach" -> COACH
                 [] OTHER -> ADMIN_ROLE]

\* The columns of a user the model follows besides the role.
InitUsers ==
    [u \in Users |->
        [first_name |-> "old", last_name |-> "old", email |-> "old",
         phone |-> "old", password |-> "old", is_active |-> TRUE]]

\* teams.Player: "player" plays for T1, "player2" has no team.
InitPlayers ==
    [p \in {"P1", "P2"} |->
        IF p = "P1" THEN [user |-> "player", team |-> "T1", jersey_number |-> None]
        ELSE [user |-> "player2", team |-> NoTeam, jersey_number |-> None]]

-----------------------------------------------------------------------------
(* Stat Calculator: the derived properties of Performance / TeamPerformance *)

Abs(x) == IF x < 0 THEN -x ELSE x

\* A rounding that drops the digits after the first decimal.
round1_truncating(made, attempted) == (1000 * made) \div attempted

\* round((made / attempted) * 100, 1), in tenths. Python rounds the double to
\* the nearest tenth; a double exactly half way (6.25 = 1/16 * 100) goes to the
\* even tenth. Within the bounds every half-way quotient is such a double.
round1(made, attempted) ==
    LET q == (1000 * made) \div attempted
        r == (1000 * made) % attempted
    IN  IF 2 * r < attempted THEN q
        ELSE IF 2 * r > attempted THEN q + 1
        ELSE IF q % 2 = 0 THEN q ELSE q + 1

\* A total that leaves the defensive rebounds out.
total_rebounds_offensive(self) == self.offensive_rebounds

Performance_total_rebounds(self) ==
    self.offensive_rebounds + self.defensive_rebounds

Performance_field_goal_percentage(self) ==
    IF self.field_goals_attempted = 0 THEN None
    ELSE round1(self.field_goals_made, self.field_goals_attempted)

Performance_three_point_percentage(self) ==
    IF self.three_pointers_attempted = 0 THEN None
    ELSE round1(self.three_pointers_made, self.three_pointers_attempted)

Performance_free_throw_percentage(self) ==
    IF self.free_throws_attempted = 0 THEN None
    ELSE round1(self.free_throws_made, self.free_throws_attempted)

TeamPerformance_total_rebounds(self) ==
    self.offensive_rebounds + self.defensive_rebounds

TeamPerformance_field_goal_percentage(self) ==
    IF self.field_goals_attempted = 0 THEN None
    ELSE round1(self.field_goals_made, self.field_goals_attempted)

TeamPerformance_three_point_percentage(self) ==
    IF self.three_pointers_attempted = 0 THEN None
    ELSE round1(self.three_pointers_made, self.three_pointers_attempted)

TeamPerformance_free_throw_percentage(self) ==
    IF self.free_throws_attempted = 0 THEN None
    ELSE round1(self.free_throws_made, self.free_throws_attempted)

\* The raw counts of a record (default=0 on every column).
ZeroCounts ==
    [minutes_played |-> 0, points |-> 0,
     field_goals_made |-> 0, field_goals_attempted |-> 0,
     three_pointers_made |-> 0, three_pointers_attempted |-> 0,
     free_throws_made |-> 0, free_throws_attempted |-> 0,
     offensive_rebounds |-> 0, defensive_rebounds |-> 0,
     assists |-> 0, steals |-> 0, blocks |-> 0, turnovers |-> 0,
     personal_fouls |-> 0]

Models == {"Performance", "TeamPerformance"}
Categories == {"field_goal", "three_point", "free_throw"}

\* The record the calculator reads: made and attempted in one shot category.
CalcRecord(category, made, attempted) ==
    CASE category = "field_goal" ->
           [ZeroCounts EXCEPT !.field_goals_made = made,
                              !.field_goals_attempted = attempted]
      [] category = "three_point" ->
           [ZeroCounts EXCEPT !.three_pointers_made = made,
                              !.three_pointers_attempted = attempted]
      [] OTHER ->
           [ZeroCounts EXCEPT !.free_throws_made = made,
                              !.free_throws_attempted = attempted]

\* Reading the percentage property of `category` on a record of `model`.
Percentage(model, category, self) ==
    IF model = "Performance"
    THEN CASE category = "field_goal" -> Performance_field_goal_percentage(self)
           [] category = "three_point" -> Performance_three_point_percentage(self)
           [] OTHER -> Performance_free_throw_percentage(self)
    ELSE CASE category = "field_goal" -> TeamPerformance_field_goal_percentage(self)
           [] category = "three_point" -> TeamPerformance_three_point_percentage(self)
           [] OTHER -> TeamPerformance_free_throw_percentage(self)

Pending == None - 1     \* the property has not been read yet

CalcIdle == [model |-> "Performance", category |-> "field_goal",
             made |-> 0, attempted |-> 0, out |-> Pending]

\* The calculator reads the percentage of the record it was given.
ReadPercentage ==
    /\ calc.out = Pending
    /\ calc' = [calc EXCEPT !.out =
                  Percentage(calc.model, calc.category,
                             CalcRecord(calc.category, calc.made, calc.attempted))]
    /\ UNCHANGED <<role, users, players, teams, games, performances, team_performances,
                   next_id, requests, response>>

-----------------------------------------------------------------------------
(* The store after the migrations, before any request *)

TeamIds == {"T1", "T2"}
PlayerIds == {"P1", "P2"}

Response(status, code, before, after) ==
    [status |-> status, code |-> code, before |-> before, after |-> after]
NoResponse == Response("none", "", "", "")

InitStore ==
    /\ role = InitRole
    /\ users = InitUsers
    /\ players = InitPlayers
    /\ teams = [t \in TeamIds |->
                  [coach |-> IF t = "T1" THEN "coach" ELSE NoUser, staff |-> {}]]
    /\ games = <<>>
    /\ performances = <<>>
    /\ team_performances = <<>>
    /\ next_id = [Game |-> 1, Performance |-> 1, TeamPerformance |-> 1]
    /\ requests = <<>>
    /\ response = NoResponse

-----------------------------------------------------------------------------
(* Model.delete(): the rows a delete takes along or sets to null, after the *)
(* on_delete rule of each foreign key.                                      *)

\* The tables, as one record.
Store ==
    [role |-> role, users |-> users, players |-> players, teams |-> teams,
     games |-> games, performances |-> performances,
     team_performances |-> team_performances]

Restrict(table, keys) == [k \in keys |-> table[k]]

\* A delete of games that leaves the rows recorded for them in place.
Game_delete_games_only(st, pks) ==
    [st EXCEPT !.games = Restrict(@, (DOMAIN @) \ pks)]

\* Game.delete(), for the games `pks`: Performance.game and
\* TeamPerformance.game are CASCADE.
Game_delete(st, pks) ==
    [st EXCEPT
       !.games = Restrict(@, (DOMAIN @) \ pks),
       !.performances = Restrict(@, {k \in DOMAIN @ : @[k].game \notin pks}),
       !.team_performances = Restrict(@, {k \in DOMAIN @ : @[k].game \notin pks})]

\* Player.delete(), for the players `pks`: Performance.player is CASCADE.
Player_delete(st, pks) ==
    [st EXCEPT
       !.players = Restrict(@, (DOMAIN @) \ pks),
       !.performances = Restrict(@, {k \in DOMAIN @ : @[k].player \notin pks})]

\* A delete of a team that only sets the references to it to null.
Team_delete_set_null(st, pk) ==
    [st EXCEPT
       !.teams = Restrict(@, (DOMAIN @) \ {pk}),
       !.players = [p \in DOMAIN @ |->
                      [@[p] EXCEPT !.team = IF @ = pk THEN NoTeam ELSE @]]]

\* Team.delete(): Game.home_team, Game.away_team and TeamPerformance.team
\* are CASCADE, Player.team is SET_NULL; the staff rows of the team go.
Team_delete(st, pk) ==
    LET its_games == {g \in DOMAIN st.games :
                        pk \in {st.games[g].home_team, st.games[g].away_team}}
    IN  [Game_delete(st, its_games) EXCEPT
           !.team_performances = Restrict(@, {k \in DOMAIN @ : @[k].team # pk}),
           !.players = [p \in DOMAIN @ |->
                          [@[p] EXCEPT !.team = IF @ = pk THEN NoTeam ELSE @]],
           !.teams = Restrict(@, (DOMAIN @) \ {pk})]

\* User.delete(): Player.user is CASCADE, Team.coach and the created_by of
\* both performance tables are SET_NULL; the staff rows of the user go.
User_delete(st, pk) ==
    LET profiles == {p \in DOMAIN st.players : st.players[p].user = pk}
    IN  [Player_delete(st, profiles) EXCEPT
           !.users = Restrict(@, (DOMAIN @) \ {pk}),
           !.role = Restrict(@, (DOMAIN @) \ {pk}),
           !.teams = [t \in DOMAIN @ |->
                        [coach |-> IF @[t].coach = pk THEN NoUser ELSE @[t].coach,
                         staff |-> @[t].staff \ {pk}]],
           !.performances =
              [k \in DOMAIN @ |->
                 [@[k] EXCEPT !.created_by = IF @ = pk THEN NoUser ELSE @]],
           !.team_performances =
              [k \in DOMAIN @ |->
                 [@[k] EXCEPT !.created_by = IF @ = pk THEN NoUser ELSE @]]]

\* The tables after a delete.
Deleted(st) ==
    /\ role' = st.role
    /\ users' = st.users
    /\ players' = st.players
    /\ teams' = st.teams
    /\ games' = st.games
    /\ performances' = st.performances
    /\ team_performances' = st.team_performances

-----------------------------------------------------------------------------
(* stats.Game *)

SCHEDULED == "scheduled"
LIVE == "live"
COMPLETED == "completed"
CANCELLED == "cancelled"
STATUS_CHOICES == {SCHEDULED, LIVE, COMPLETED, CANCELLED}

\* A game that counts as completed whatever its status.
Game_is_completed_always(self) == TRUE

Game_is_completed(self) == self.status = COMPLETED

Game_winner(self) ==
    IF ~Game_is_completed(self) \/ self.home_score = None \/ self.away_score = None
    THEN NoTeam
    ELSE IF self.home_score > self.away_score THEN self.home_team
    ELSE IF self.away_score > self.home_score THEN self.away_team
    ELSE NoTeam

\* What a form or a request body can carry for a game. A status outside the
\* choices ("postponed") can be submitted; a score is blank or a number >= 0.
StatusInputs == STATUS_CHOICES \cup {"postponed"}
ScoreInputs == {None} \cup 0..MaxScore
GameInputs == [home_team : TeamIds, away_team : TeamIds, status : StatusInputs,
               home_score : ScoreInputs, away_score : ScoreInputs]

\* A form that takes any status string.
Game_clean_any(data) == TRUE

\* Validation of the model form of a Game: the status is one of the choices
\* (the other columns of the form are drawn valid).
Game_clean(data) == data.status \in STATUS_CHOICES

\* GameAdmin registers Game with the default model form: every column,
\* status included, is editable, on the add page and on the change page.
GameAdmin_add(data) ==
    /\ next_id.Game <= MaxGames
    /\ IF Game_clean(data)
       THEN /\ games' = games @@ (next_id.Game :> data)
            /\ next_id' = [next_id EXCEPT !.Game = @ + 1]
            /\ response' = Response("saved", "", "", data.status)
       ELSE /\ response' = Response("form_invalid", "", "", "")
            /\ UNCHANGED <<games, next_id>>
    /\ UNCHANGED <<role, users, players, teams, performances, team_performances, requests, calc>>

GameAdmin_change(pk, data) ==
    /\ pk \in DOMAIN games
    /\ IF Game_clean(data)
       THEN /\ games' = [games EXCEPT ![pk] = data]
            /\ response' = Response("saved", "", games[pk].status, data.status)
       ELSE /\ response' = Response("form_invalid", "", games[pk].status, games[pk].status)
            /\ UNCHANGED games
    /\ UNCHANGED <<role, users, players, teams, performances, team_performances, next_id,
                   requests, calc>>

\* rest_framework.permissions.IsAuthenticated, the permission class of every
\* view set of stats and teams. A request it refuses is answered 403 (401
\* under an authentication scheme that sends a challenge).
IsAuthenticated(user) == user # AnonymousUser

\* The columns and properties of Game, and the names GameSerializer (the one
\* views.py defines and the view set uses) lists in Meta.fields. A name that
\* is neither declared on the serializer nor an attribute of the model makes
\* the serializer raise ImproperlyConfigured when its fields are built.
Game_attributes ==
    {"id", "home_team", "away_team", "date", "time", "location", "home_score",
     "away_score", "status", "notes", "created_at", "updated_at",
     "is_completed", "winner", "performances", "team_performances"}
GameSerializer_declared == {"home_team_name", "away_team_name"}
GameSerializer_Meta_fields ==
    {"id", "home_team", "home_team_name", "away_team", "away_team_name",
     "date", "location", "status", "home_score", "away_score", "season",
     "notes", "created_by", "created_at", "updated_at"}
GameViewSet_filterset_fields == {"home_team", "away_team", "status", "season"}

GameSerializer_usable ==
    GameSerializer_Meta_fields \subseteq (Game_attributes \cup GameSerializer_declared)
GameViewSet_filterable == GameViewSet_filterset_fields \subseteq Game_attributes

\* GameViewSet.create: permission, then the serializer validates and
\* perform_create saves with created_by.
GameViewSet_create(user, data) ==
    /\ next_id.Game <= MaxGames
    /\ IF ~IsAuthenticated(user)
       THEN /\ response' = Response("403", "", "", "")
            /\ UNCHANGED <<games, next_id>>
       ELSE IF ~GameSerializer_usable
       THEN /\ response' = Response("500", "", "", "")
            /\ UNCHANGED <<games, next_id>>
       ELSE IF ~Game_clean(data)
       THEN /\ response' = Response("400", "", "", "")
            /\ UNCHANGED <<games, next_id>>
       ELSE IF "created_by" \notin Game_attributes
       THEN \* Game(..., created_by=user): no such column, TypeError
            /\ response' = Response("500", "", "", "")
            /\ UNCHANGED <<games, next_id>>
       ELSE /\ games' = games @@ (next_id.Game :> data)
            /\ next_id' = [next_id EXCEPT !.Game = @ + 1]
            /\ response' = Response("201", "", "", data.status)
    /\ UNCHANGED <<role, users, players, teams, performances, team_performances, requests, calc>>

\* GameViewSet.update / partial_update: permission, get_object (which runs
\* the filter backends over the queryset), then the serializer.
GameViewSet_update(user, pk, data) ==
    /\ pk \in DOMAIN games
    /\ IF ~IsAuthenticated(user)
       THEN /\ response' = Response("403", "", games[pk].status, games[pk].status)
            /\ UNCHANGED games
       ELSE IF ~GameViewSet_filterable \/ ~GameSerializer_usable
       THEN /\ response' = Response("500", "", games[pk].status, games[pk].status)
            /\ UNCHANGED games
       ELSE IF ~Game_clean(data)
       THEN /\ response' = Response("400", "", games[pk].status, games[pk].status)
            /\ UNCHANGED games
       ELSE /\ games' = [games EXCEPT ![pk] = data]
            /\ response' = Response("200", "", games[pk].status, data.status)
    /\ UNCHANGED <<role, users, players, teams, performances, team_performances, next_id,
                   requests, calc>>

InitGame == InitStore /\ calc = CalcIdle

NextGame ==
    \/ \E data \in GameInputs : GameAdmin_add(data)
    \/ \E pk \in 1..MaxGames, data \in GameInputs : GameAdmin_change(pk, data)
    \/ \E user \in Principals, data \in GameInputs : GameViewSet_create(user, data)
    \/ \E user \in Principals, pk \in 1..MaxGames, data \in GameInputs :
          GameViewSet_update(user, pk, data)

SpecGame == InitGame /\ [][NextGame]_vars

-----------------------------------------------------------------------------
(* stats.Performance and stats.TeamPerformance behind their view sets *)

\* The box scores a request body carries.
BoxScores ==
    {ZeroCounts,
     [ZeroCounts EXCEPT !.minutes_played = 30, !.points = 17,
                        !.field_goals_made = 7, !.field_goals_attempted = 10,
                        !.free_throws_made = 3, !.free_throws_attempted = 4,
                        !.offensive_rebounds = 2, !.defensive_rebounds = 5,
                        !.assists = 4, !.personal_fouls = 1]}

GameRefs == 1..MaxGames

\* Bodies of create / update requests. total_rebounds may be sent along; it
\* is a read-only field of both serializers.
PerformanceInputs ==
    [player : PlayerIds, game : GameRefs, counts : BoxScores, total_rebounds : {40}]
TeamPerformanceInputs ==
    [team : TeamIds, game : GameRefs, counts : BoxScores, total_rebounds : {40}]

TeamCounts(counts) ==
    [f \in (DOMAIN counts) \ {"minutes_played"} |-> counts[f]]

\* A key that would also tell rows of one pair apart by their points.
Performance_unique_together_points(row) == <<"pair", row.player, row.game, row.points>>

\* Meta.unique_together of the two models: the pairs a table may hold once.
Performance_unique_together(row) == <<"pair", row.player, row.game>>

TeamPerformance_unique_together(row) == <<"pair", row.team, row.game>>

\* UniqueTogetherValidator of the model serializer, and the unique index of
\* the table: is there a row, other than `pk`, with the pair of `row`?
Performance_pair_taken(table, pk, row) ==
    \E k \in (DOMAIN table) \ {pk} :
        Performance_unique_together(table[k]) = Performance_unique_together(row)

TeamPerformance_pair_taken(table, pk, row) ==
    \E k \in (DOMAIN table) \ {pk} :
        TeamPerformance_unique_together(table[k]) = TeamPerformance_unique_together(row)

\* PerformanceViewSet.create: permission; the serializer validates the
\* references and the pair and drops the read-only fields; perform_create
\* saves with created_by = request.user.
PerformanceViewSet_create(user, data) ==
    LET row == data.counts @@
               [player |-> data.player, game |-> data.game, created_by |-> user]
    IN
    /\ IF ~IsAuthenticated(user)
       THEN /\ response' = Response("403", "", "", "")
            /\ UNCHANGED <<performances, next_id>>
       ELSE IF data.game \notin DOMAIN games
       THEN /\ response' = Response("400", "does_not_exist", "", "")
            /\ UNCHANGED <<performances, next_id>>
       ELSE IF Performance_pair_taken(performances, 0, row)
       THEN /\ response' = Response("400", "unique", "", "")
            /\ UNCHANGED <<performances, next_id>>
       ELSE /\ next_id.Performance <= MaxRows
            /\ performances' = performances @@ (next_id.Performance :> row)
            /\ next_id' = [next_id EXCEPT !.Performance = @ + 1]
            /\ response' = Response("201", "", "", "")
    /\ UNCHANGED <<role, users, players, teams, games, team_performances, requests, calc>>

\* PerformanceViewSet.update: permission, get_object, validation (the pair
\* must not belong to another row), save. player, game and the counts are
\* writable fields.
PerformanceViewSet_update(user, pk, data) ==
    /\ IF ~IsAuthenticated(user)
       THEN /\ response' = Response("403", "", "", "")
            /\ UNCHANGED performances
       ELSE IF pk \notin DOMAIN performances
       THEN /\ response' = Response("404", "", "", "")
            /\ UNCHANGED performances
       ELSE LET row == data.counts @@
                       [player |-> data.player, game |-> data.game,
                        created_by |-> performances[pk].created_by]
            IN  IF data.game \notin DOMAIN games
                THEN /\ response' = Response("400", "does_not_exist", "", "")
                     /\ UNCHANGED performances
                ELSE IF Performance_pair_taken(performances, pk, row)
                THEN /\ response' = Response("400", "unique", "", "")
                     /\ UNCHANGED performances
                ELSE /\ performances' = [performances EXCEPT ![pk] = row]
                     /\ response' = Response("200", "", "", "")
    /\ UNCHANGED <<role, users, players, teams, games, team_performances, next_id, requests, calc>>

Remove(table, pk) == [k \in (DOMAIN table) \ {pk} |-> table[k]]

\* PerformanceViewSet.destroy
PerformanceViewSet_destroy(user, pk) ==
    /\ IF ~IsAuthenticated(user)
       THEN /\ response' = Response("403", "", "", "")
            /\ UNCHANGED performances
       ELSE IF pk \notin DOMAIN performances
       THEN /\ response' = Response("404", "", "", "")
            /\ UNCHANGED performances
       ELSE /\ performances' = Remove(performances, pk)
            /\ response' = Response("204", "", "", "")
    /\ UNCHANGED <<role, users, players, teams, games, team_performances, next_id, requests, calc>>

\* TeamPerformanceViewSet.create
TeamPerformanceViewSet_create(user, data) ==
    LET row == TeamCounts(data.counts) @@
               [team |-> data.team, game |-> data.game, created_by |-> user]
    IN
    /\ IF ~IsAuthenticated(user)
       THEN /\ response' = Response("403", "", "", "")
            /\ UNCHANGED <<team_performances, next_id>>
       ELSE IF data.game \notin DOMAIN games
       THEN /\ response' = Response("400", "does_not_exist", "", "")
            /\ UNCHANGED <<team_performances, next_id>>
       ELSE IF TeamPerformance_pair_taken(team_performances, 0, row)
       THEN /\ response' = Response("400", "unique", "", "")
            /\ UNCHANGED <<team_performances, next_id>>
       ELSE /\ next_id.TeamPerformance <= MaxRows
            /\ team_performances' =
                 team_performances @@ (next_id.TeamPerformance :> row)
            /\ next_id' = [next_id EXCEPT !.TeamPerformance = @ + 1]
            /\ response' = Response("201", "", "", "")
    /\ UNCHANGED <<role, users, players, teams, games, performances, requests, calc>>

\* TeamPerformanceViewSet.update

TeamPerformanceViewSet_update(user, pk, data) ==
    /\ IF ~IsAuthenticated(user)
       THEN /\ response' = Response("403", "", "", "")
            /\ UNCHANGED team_performances
       ELSE IF pk \notin DOMAIN team_performances
       THEN /\ response' = Response("404", "", "", "")
            /\ UNCHANGED team_performances
       ELSE LET row == TeamCounts(data.counts) @@
                       [team |-> data.team, game |-> data.game,
                        created_by |-> team_performances[pk].created_by]
            IN  IF data.game \notin DOMAIN games
                THEN /\ response' = Response("400", "does_not_exist", "", "")
                     /\ UNCHANGED team_performances
                ELSE IF TeamPerformance_pair_taken(team_performances, pk, row)
                THEN /\ response' = Response("400", "unique", "", "")
                     /\ UNCHANGED team_performances
                ELSE /\ team_performances' = [team_performances EXCEPT ![pk] = row]
                     /\ response' = Response("200", "", "", "")
    /\ UNCHANGED <<role, users, players, teams, games, performances, next_id, requests, calc>>

\* TeamPerformanceViewSet.destroy
TeamPerformanceViewSet_destroy(user, pk) ==
    /\ IF ~IsAuthenticated(user)
       THEN /\ response' = Response("403", "", "", "")
            /\ UNCHANGED team_performances
       ELSE IF pk \notin DOMAIN team_performances
       THEN /\ response' = Response("404", "", "", "")
            /\ UNCHANGED team_performances
       ELSE /\ team_performances' = Remove(team_performances, pk)
            /\ response' = Response("204", "", "", "")
    /\ UNCHANGED <<role, users, players, teams, games, performances, next_id, requests, calc>>

\* The representation a serializer returns for a stored row: the derived
\* properties are read from the instance (ReadOnlyField on a property).
PerformanceSerializer_to_representation(pk, row) ==
    [model |-> "Performance", id |-> pk,
     offensive_rebounds |-> row.offensive_rebounds,
     defensive_rebounds |-> row.defensive_rebounds,
     total_rebounds |-> Performance_total_rebounds(row),
     field_goal_percentage |-> Performance_field_goal_percentage(row),
     three_point_percentage |-> Performance_three_point_percentage(row),
     free_throw_percentage |-> Performance_free_throw_percentage(row)]

TeamPerformanceSerializer_to_representation(pk, row) ==
    [model |-> "TeamPerformance", id |-> pk,
     offensive_rebounds |-> row.offensive_rebounds,
     defensive_rebounds |-> row.defensive_rebounds,
     total_rebounds |-> TeamPerformance_total_rebounds(row),
     field_goal_percentage |-> TeamPerformance_field_goal_percentage(row),
     three_point_percentage |-> TeamPerformance_three_point_percentage(row),
     free_throw_percentage |-> TeamPerformance_free_throw_percentage(row)]

\* PerformanceViewSet.retrieve
PerformanceViewSet_retrieve(user, pk) ==
    /\ IF ~IsAuthenticated(user)
       THEN /\ response' = Response("403", "", "", "")
            /\ UNCHANGED calc
       ELSE IF pk \notin DOMAIN performances
       THEN /\ response' = Response("404", "", "", "")
            /\ UNCHANGED calc
       ELSE /\ calc' = PerformanceSerializer_to_representation(pk, performances[pk])
            /\ response' = Response("200", "", "", "")
    /\ UNCHANGED <<role, users, players, teams, games, performances, team_performances, next_id,
                   requests>>

\* TeamPerformanceViewSet.retrieve
TeamPerformanceViewSet_retrieve(user, pk) ==
    /\ IF ~IsAuthenticated(user)
       THEN /\ response' = Response("403", "", "", "")
            /\ UNCHANGED calc
       ELSE IF pk \notin DOMAIN team_performances
       THEN /\ response' = Response("404", "", "", "")
            /\ UNCHANGED calc
       ELSE /\ calc' = TeamPerformanceSerializer_to_representation(
                          pk, team_performances[pk])
            /\ response' = Response("200", "", "", "")
    /\ UNCHANGED <<role, users, players, teams, games, performances, team_performances, next_id,
                   requests>>

\* TeamViewSet.partial_update of the staff of a team: the staff field takes
\* users whose role is statistician (limit_choices_to).
Statisticians == {u \in Users : role[u] = STATISTICIAN}

TeamViewSet_update(user, pk, staff) ==
    /\ pk \in TeamIds
    /\ staff \subseteq Statisticians
    /\ IF ~IsAuthenticated(user)
       THEN /\ response' = Response("403", "", "", "")
            /\ UNCHANGED teams
       ELSE /\ teams' = [teams EXCEPT ![pk].staff = staff]
            /\ response' = Response("200", "", "", "")
    /\ UNCHANGED <<role, users, players, games, performances, team_performances, next_id,
                   requests, calc>>

-----------------------------------------------------------------------------
(* users.permissions. A check answers True or False, or raises: the name    *)
(* User.ADMIN, which five of the classes evaluate, is not an attribute of   *)
(* the User class, and AnonymousUser has no attribute role.                 *)

\* The role constants the class User defines.
User_constants == [PLAYER |-> PLAYER, COACH |-> COACH, STATISTICIAN |-> STATISTICIAN]

AttributeError == "AttributeError"
Bool(b) == IF b THEN "True" ELSE "False"

\* request.user.role == User.<name>
role_is(user, name) ==
    IF user = AnonymousUser THEN AttributeError
    ELSE IF name \notin DOMAIN User_constants THEN AttributeError
    ELSE Bool(role[user] = User_constants[name])

IsAdmin_has_permission(user) == role_is(user, "ADMIN")

IsCoach_has_permission(user) == role_is(user, "COACH")

IsPlayer_has_permission(user) == role_is(user, "PLAYER")

IsStatistician_has_permission(user) == role_is(user, "STATISTICIAN")

\* request.user.role in [User.COACH, User.STATISTICIAN, User.ADMIN]
IsStaff_has_permission(user) ==
    IF user = AnonymousUser THEN AttributeError
    ELSE IF {"COACH", "STATISTICIAN", "ADMIN"} \subseteq DOMAIN User_constants
    THEN Bool(role[user] \in {User_constants[n] : n \in {"COACH", "STATISTICIAN", "ADMIN"}})
    ELSE AttributeError

\* role == User.ADMIN or (role == User.COACH and hasattr(obj, 'coach') and
\* obj.coach == request.user)
IsTeamCoach_has_object_permission(user, obj) ==
    IF role_is(user, "ADMIN") # "False" THEN role_is(user, "ADMIN")
    ELSE Bool(/\ role_is(user, "COACH") = "True"
              /\ "coach" \in DOMAIN obj
              /\ obj.coach = user)

\* role == User.ADMIN or (role == User.STATISTICIAN and hasattr(obj, 'staff')
\* and request.user in obj.staff.all())
IsTeamStatistician_has_object_permission(user, obj) ==
    IF role_is(user, "ADMIN") # "False" THEN role_is(user, "ADMIN")
    ELSE Bool(/\ role_is(user, "STATISTICIAN") = "True"
              /\ "staff" \in DOMAIN obj
              /\ user \in obj.staff)

\* The reverse names a User instance has for the rows that refer to it.
User_related_names == {"player_profile", "coached_team", "staffed_teams"}

\* The player branch reads request.user.player inside try / except: pass. A
\* user has no attribute of that name (the profile is user.player_profile),
\* the read raises and the branch grants nothing.
IsTeamMember_player_branch(user, pk) ==
    /\ role_is(user, "PLAYER") = "True"
    /\ "player" \in User_related_names
    /\ \E p \in DOMAIN players : players[p].user = user /\ players[p].team = pk

IsTeamMember_has_object_permission(user, obj) ==
    IF role_is(user, "ADMIN") # "False" THEN role_is(user, "ADMIN")
    ELSE Bool(/\ "coach" \in DOMAIN obj
              /\ "staff" \in DOMAIN obj
              /\ \/ role_is(user, "COACH") = "True" /\ obj.coach = user
                 \/ role_is(user, "STATISTICIAN") = "True" /\ user \in obj.staff
                 \/ IsTeamMember_player_branch(user, obj.pk))

RolePermissions == {"IsAdmin", "IsCoach", "IsPlayer", "IsStatistician", "IsStaff"}
ObjectPermissions == {"IsTeamCoach", "IsTeamStatistician", "IsTeamMember"}

has_permission(class, user) ==
    CASE class = "IsAdmin" -> IsAdmin_has_permission(user)
      [] class = "IsCoach" -> IsCoach_has_permission(user)
      [] class = "IsPlayer" -> IsPlayer_has_permission(user)
      [] class = "IsStatistician" -> IsStatistician_has_permission(user)
      [] class = "IsStaff" -> IsStaff_has_permission(user)

has_object_permission(class, user, obj) ==
    CASE class = "IsTeamCoach" -> IsTeamCoach_has_object_permission(user, obj)
      [] class = "IsTeamStatistician" ->
           IsTeamStatistician_has_object_permission(user, obj)
      [] class = "IsTeamMember" -> IsTeamMember_has_object_permission(user, obj)

\* What a view answers for the outcome of a permission check: it goes on
\* (200), refuses (403), or the exception becomes a server error (500).
PermissionStatus(outcome) ==
    CASE outcome = "True" -> "200"
      [] outcome = "False" -> "403"
      [] OTHER -> "500"

\* APIView.check_permissions of a view that lists one role-level class.
check_permissions(class, user) ==
    /\ response' = Response(PermissionStatus(has_permission(class, user)),
                            has_permission(class, user), class, user)
    /\ UNCHANGED <<role, users, players, teams, games, performances, team_performances, next_id,
                   requests, calc>>

\* The Team instance with primary key pk.
Team(pk) == [pk |-> pk] @@ teams[pk]

\* APIView.check_object_permissions of a view that lists one object-level
\* class, for a team.
check_object_permissions(class, user, pk) ==
    /\ response' = Response(PermissionStatus(has_object_permission(class, user, Team(pk))),
                            has_object_permission(class, user, Team(pk)), class, user)
    /\ UNCHANGED <<role, users, players, teams, games, performances, team_performances, next_id,
                   requests, calc>>

-----------------------------------------------------------------------------
(* users.views: UserViewSet. The module binds User = get_user_model() right *)
(* after its imports, and get_user_model is not among the names imported:   *)
(* loading the module raises NameError, and so does every request routed to *)
(* the view set.                                                             *)

\* The names users/views.py imports.
users_views_imports ==
    {"render", "viewsets", "permissions", "status", "filters", "action",
     "Response", "IsAuthenticated", "DjangoFilterBackend", "make_password",
     "User", "UserSerializer", "IsAdmin", "IsCoach", "IsStatistician",
     "IsPlayer", "IsStaff"}

users_views_loads == "get_user_model" \in users_views_imports

\* UserViewSet.get_permissions
UserViewSet_get_permissions(action) ==
    IF action \in {"create", "update", "partial_update", "destroy"} THEN "IsAdmin"
    ELSE IF action = "list" THEN "IsStaff"
    ELSE "IsAuthenticated"

\* The outcome of dispatching `action` for `user`, up to the handler.
UserViewSet_initial(action, user) ==
    IF ~users_views_loads THEN "NameError"
    ELSE IF UserViewSet_get_permissions(action) = "IsAuthenticated"
    THEN Bool(IsAuthenticated(user))
    ELSE has_permission(UserViewSet_get_permissions(action), user)

\* The answer to a request the handler was not reached for.
UserViewSet_refusal(action, user) ==
    Response(IF UserViewSet_initial(action, user) = "False" THEN "403" ELSE "500",
             UserViewSet_initial(action, user), action, user)

\* The columns UserSerializer writes, among those the model follows.
UserSerializer_writable == {"first_name", "last_name", "email", "phone", "is_active"}

\* The columns of the row after a write of `data` through the serializer.
UserSerializer_update(row, data) ==
    [f \in DOMAIN row |->
        IF f \in DOMAIN data /\ f \in UserSerializer_writable THEN data[f] ELSE row[f]]

NewUserRow ==
    [first_name |-> "", last_name |-> "", email |-> "", phone |-> None,
     password |-> "", is_active |-> TRUE]

\* UserViewSet.create (serializer_class is UserSerializer; role is writable)
UserViewSet_create(user, username, data) ==
    /\ IF UserViewSet_initial("create", user) # "True"
       THEN /\ response' = UserViewSet_refusal("create", user)
            /\ UNCHANGED <<role, users>>
       ELSE IF username \in DOMAIN users
       THEN /\ response' = Response("400", "unique", "create", user)
            /\ UNCHANGED <<role, users>>
       ELSE /\ users' = users @@ (username :> UserSerializer_update(NewUserRow, data))
            /\ role' = role @@
                 (username :> IF "role" \in DOMAIN data THEN data.role ELSE PLAYER)
            /\ response' = Response("201", "", "create", user)
    /\ UNCHANGED <<players, teams, games, performances, team_performances, next_id,
                   requests, calc>>

\* UserViewSet.update and UserViewSet.partial_update
UserViewSet_write(action, user, pk, data) ==
    /\ IF UserViewSet_initial(action, user) # "True"
       THEN /\ response' = UserViewSet_refusal(action, user)
            /\ UNCHANGED <<role, users>>
       ELSE IF pk \notin DOMAIN users
       THEN /\ response' = Response("404", "", action, user)
            /\ UNCHANGED <<role, users>>
       ELSE /\ users' = [users EXCEPT ![pk] = UserSerializer_update(@, data)]
            /\ role' = [role EXCEPT ![pk] =
                          IF "role" \in DOMAIN data THEN data.role ELSE @]
            /\ response' = Response("200", "", action, user)
    /\ UNCHANGED <<players, teams, games, performances, team_performances, next_id,
                   requests, calc>>

UserViewSet_update(user, pk, data) ==
    /\ DOMAIN data = UserSerializer_writable \cup {"role"}
    /\ UserViewSet_write("update", user, pk, data)

\* A PATCH names at least one field.
UserViewSet_partial_update(user, pk, data) ==
    /\ DOMAIN data # {}
    /\ UserViewSet_write("partial_update", user, pk, data)

\* UserViewSet.destroy
UserViewSet_destroy(user, pk) ==
    /\ IF UserViewSet_initial("destroy", user) # "True"
       THEN /\ response' = UserViewSet_refusal("destroy", user)
            /\ UNCHANGED <<role, users, players, teams, games, performances,
                           team_performances>>
       ELSE IF pk \notin DOMAIN users
       THEN /\ response' = Response("404", "", "destroy", user)
            /\ UNCHANGED <<role, users, players, teams, games, performances,
                           team_performances>>
       ELSE /\ Deleted(User_delete(Store, pk))
            /\ response' = Response("204", "", "destroy", user)
    /\ UNCHANGED <<next_id, requests, calc>>

\* The answer of a handler that reads: list, retrieve, me.
UserViewSet_read(action, user, found) ==
    IF UserViewSet_initial(action, user) # "True"
    THEN UserViewSet_refusal(action, user)
    ELSE IF ~found THEN Response("404", "", action, user)
    ELSE Response("200", "", action, user)

\* UserViewSet.list
UserViewSet_list(user) ==
    /\ response' = UserViewSet_read("list", user, TRUE)
    /\ UNCHANGED <<role, users, players, teams, games, performances,
                   team_performances, next_id, requests, calc>>

\* UserViewSet.retrieve
UserViewSet_retrieve(user, pk) ==
    /\ response' = UserViewSet_read("retrieve", user, pk \in DOMAIN users)
    /\ UNCHANGED <<role, users, players, teams, games, performances,
                   team_performances, next_id, requests, calc>>

\* UserViewSet.me
UserViewSet_me(user) ==
    /\ response' = UserViewSet_read("me", user, TRUE)
    /\ UNCHANGED <<role, users, players, teams, games, performances,
                   team_performances, next_id, requests, calc>>

\* django.contrib.auth.hashers.make_password
make_password(password) == <<"hash", password>>

\* UserViewSet.update_me: the keys of the body found in allowed_fields are set
\* as attributes of request.user, the password hashed, and the user saved;
\* save() writes the columns of the model (phone_number is not one).
update_me_allowed_fields ==
    {"first_name", "last_name", "email", "phone_number", "password"}

UserViewSet_update_me(user, data) ==
    /\ IF UserViewSet_initial("update_me", user) # "True"
       THEN /\ response' = UserViewSet_refusal("update_me", user)
            /\ UNCHANGED users
       ELSE /\ users' =
                 [users EXCEPT ![user] =
                    [f \in DOMAIN @ |->
                       IF f \in DOMAIN data /\ f \in update_me_allowed_fields
                       THEN IF f = "password" THEN make_password(data[f])
                            ELSE data[f]
                       ELSE @[f]]]
            /\ response' = Response("200", "", "update_me", user)
    /\ UNCHANGED <<role, players, teams, games, performances, team_performances,
                   next_id, requests, calc>>

\* The principals that send requests to the statistics end points.
Clients == {"stat", "player", AnonymousUser}

\* One scheduled game between the two teams is on the calendar.
InitStats ==
    /\ role = InitRole
    /\ users = InitUsers
    /\ players = InitPlayers
    /\ teams = [t \in TeamIds |->
                  [coach |-> IF t = "T1" THEN "coach" ELSE NoUser, staff |-> {}]]
    /\ games = (1 :> [home_team |-> "T1", away_team |-> "T2", status |-> SCHEDULED,
                      home_score |-> None, away_score |-> None])
    /\ performances = <<>>
    /\ team_performances = <<>>
    /\ next_id = [Game |-> 2, Performance |-> 1, TeamPerformance |-> 1]
    /\ requests = <<>>
    /\ response = NoResponse
    /\ calc = CalcIdle

Next ==
    \/ \E user \in Clients, data \in PerformanceInputs :
          PerformanceViewSet_create(user, data)
    \/ \E user \in Clients, pk \in 1..MaxRows, data \in PerformanceInputs :
          PerformanceViewSet_update(user, pk, data)
    \/ \E user \in Clients, pk \in 1..MaxRows : PerformanceViewSet_destroy(user, pk)
    \/ \E user \in Clients, data \in TeamPerformanceInputs :
          TeamPerformanceViewSet_create(user, data)
    \/ \E user \in Clients, pk \in 1..MaxRows, data \in TeamPerformanceInputs :
          TeamPerformanceViewSet_update(user, pk, data)
    \/ \E user \in Clients, pk \in 1..MaxRows : TeamPerformanceViewSet_destroy(user, pk)

Spec == InitStats /\ [][Next]_vars

\* The team performances and the staff of the teams.
NextTeam ==
    \/ \E user \in Clients, data \in TeamPerformanceInputs :
          TeamPerformanceViewSet_create(user, data)
    \/ \E user \in Clients, pk \in 1..MaxRows, data \in TeamPerformanceInputs :
          TeamPerformanceViewSet_update(user, pk, data)
    \/ \E user \in Clients, pk \in 1..MaxRows : TeamPerformanceViewSet_destroy(user, pk)
    \/ \E user \in Clients, pk \in TeamIds, staff \in SUBSET Users :
          TeamViewSet_update(user, pk, staff)

SpecTeam == InitStats /\ [][NextTeam]_vars

\* The records as they are written and read back: a statistician creates and
\* updates rows, any client reads them.
NextRecord ==
    \/ \E data \in PerformanceInputs : PerformanceViewSet_create("stat", data)
    \/ \E pk \in 1..MaxRows, data \in PerformanceInputs :
          PerformanceViewSet_update("stat", pk, data)
    \/ \E user \in Clients, pk \in 1..MaxRows : PerformanceViewSet_retrieve(user, pk)
    \/ \E data \in TeamPerformanceInputs : TeamPerformanceViewSet_create("stat", data)
    \/ \E pk \in 1..MaxRows, data \in TeamPerformanceInputs :
          TeamPerformanceViewSet_update("stat", pk, data)
    \/ \E user \in Clients, pk \in 1..MaxRows :
          TeamPerformanceViewSet_retrieve(user, pk)

SpecRecord == InitStats /\ [][NextRecord]_vars

\* The permission classes, checked for every principal while the staff of the
\* teams changes.
NextPerm ==
    \/ \E class \in RolePermissions, user \in Principals :
          check_permissions(class, user)
    \/ \E class \in ObjectPermissions, user \in Principals, pk \in TeamIds :
          check_object_permissions(class, user, pk)
    \/ \E user \in Clients, pk \in TeamIds, staff \in SUBSET Users :
          TeamViewSet_update(user, pk, staff)

SpecPerm == InitStats /\ [][NextPerm]_vars

-----------------------------------------------------------------------------
(* The users end points, for every principal and every body.                *)

UserFields == UserSerializer_writable \cup {"role", "phone_number", "password"}

\* A body names no field, one field, the fields of the serializer, or all of
\* them; each named field carries a new value.
UserBodies ==
    {[f \in fields |->
        CASE f = "is_active" -> FALSE
          [] f = "role" -> STATISTICIAN
          [] OTHER -> "new"] :
     fields \in {fs \in SUBSET UserFields :
                    \/ Cardinality(fs) <= 1
                    \/ fs = UserSerializer_writable \cup {"role"}
                    \/ fs = UserFields}}

InitUsersSpec ==
    /\ role = InitRole
    /\ users \in [Users -> [first_name : {"old"}, last_name : {"old"},
                           email : {"old"}, phone : {"old"}, password : {"old"},
                           is_active : BOOLEAN]]
    /\ players = InitPlayers
    /\ teams = [t \in TeamIds |->
                  [coach |-> IF t = "T1" THEN "coach" ELSE NoUser, staff |-> {}]]
    /\ games = <<>>
    /\ performances = <<>>
    /\ team_performances = <<>>
    /\ next_id = [Game |-> 1, Performance |-> 1, TeamPerformance |-> 1]
    /\ requests = <<>>
    /\ response = NoResponse
    /\ calc = CalcIdle

NextUsers ==
    \/ \E user \in Principals, data \in UserBodies :
          UserViewSet_create(user, "new_user", data)
    \/ \E user \in Principals, pk \in Users, data \in UserBodies :
          UserViewSet_update(user, pk, data)
    \/ \E user \in Principals, pk \in Users, data \in UserBodies :
          UserViewSet_partial_update(user, pk, data)
    \/ \E user \in Principals, pk \in Users : UserViewSet_destroy(user, pk)
    \/ \E user \in Principals : UserViewSet_list(user)
    \/ \E user \in Principals, pk \in Users : UserViewSet_retrieve(user, pk)
    \/ \E user \in Principals : UserViewSet_me(user)
    \/ \E user \in Principals, data \in UserBodies :
          UserViewSet_update_me(user, data)

SpecUsers == InitUsersSpec /\ [][NextUsers]_vars

-----------------------------------------------------------------------------
(* Concurrent creates of Performance rows. Each request is served by its    *)
(* own worker: the view checks the permission and validates the body        *)
(* (serializer.is_valid, which queries the table for the pair), and later   *)
(* perform_create inserts the row; other workers may run in between. The    *)
(* unique index the table has for Meta.unique_together rejects the insert   *)
(* of a second row for a pair with an IntegrityError, which the view does   *)
(* not catch.                                                                *)
Workers == 1..MaxRequests

\* A table without the unique index.
unique_index_absent(table, row) == FALSE

Performance_unique_index_violated(table, row) ==
    \E k \in DOMAIN table :
        Performance_unique_together(table[k]) = Performance_unique_together(row)

RequestRow(req) ==
    req.data.counts @@
        [player |-> req.data.player, game |-> req.data.game, created_by |-> req.user]

Answer(w, resp) ==
    requests' = [requests EXCEPT ![w].pc = "done", ![w].response = resp]

\* PerformanceViewSet.create up to serializer.is_valid(raise_exception=True)
PerformanceViewSet_create_is_valid(w) ==
    /\ requests[w].pc = "received"
    /\ LET req == requests[w]
       IN  IF ~IsAuthenticated(req.user)
           THEN Answer(w, Response("403", "", "", ""))
           ELSE IF req.data.game \notin DOMAIN games
           THEN Answer(w, Response("400", "does_not_exist", "", ""))
           ELSE IF Performance_pair_taken(performances, 0, RequestRow(req))
           THEN Answer(w, Response("400", "unique", "", ""))
           ELSE requests' = [requests EXCEPT ![w].pc = "valid"]
    /\ UNCHANGED <<role, users, players, teams, games, performances, team_performances, next_id,
                   response, calc>>

\* PerformanceViewSet.perform_create: serializer.save(created_by=request.user)
PerformanceViewSet_perform_create(w) ==
    /\ requests[w].pc = "valid"
    /\ LET row == RequestRow(requests[w])
       IN  IF Performance_unique_index_violated(performances, row)
           THEN /\ Answer(w, Response("500", "IntegrityError", "", ""))
                /\ UNCHANGED <<performances, next_id>>
           ELSE /\ performances' = performances @@ (next_id.Performance :> row)
                /\ next_id' = [next_id EXCEPT !.Performance = @ + 1]
                /\ Answer(w, Response("201", "", "", ""))
    /\ UNCHANGED <<role, users, players, teams, games, team_performances, response, calc>>

InitRace ==
    /\ role = InitRole
    /\ users = InitUsers
    /\ players = InitPlayers
    /\ teams = [t \in TeamIds |->
                  [coach |-> IF t = "T1" THEN "coach" ELSE NoUser, staff |-> {}]]
    /\ games = (1 :> [home_team |-> "T1", away_team |-> "T2", status |-> SCHEDULED,
                      home_score |-> None, away_score |-> None])
    /\ performances = <<>>
    /\ team_performances = <<>>
    /\ next_id = [Game |-> 2, Performance |-> 1, TeamPerformance |-> 1]
    /\ requests \in [Workers -> [pc : {"received"},
                                 user : {"stat", AnonymousUser},
                                 data : PerformanceInputs,
                                 response : {NoResponse}]]
    /\ response = NoResponse
    /\ calc = CalcIdle

NextRace ==
    \/ \E w \in Workers : PerformanceViewSet_create_is_valid(w)
    \/ \E w \in Workers : PerformanceViewSet_perform_create(w)

SpecRace == InitRace /\ [][NextRace]_vars

-----------------------------------------------------------------------------
(* The averages end points. A request is dispatched in two steps: initial   *)
(* checks the permission classes of the view set, then the handler runs.    *)
(* Requests of several clients are served at the same time.                 *)

\* A view set that lists no permission class lets every request through.
permission_classes_none == {}

PerformanceViewSet_permission_classes == {"IsAuthenticated"}

TeamPerformanceViewSet_permission_classes == {"IsAuthenticated"}

\* The columns of the two tables; the derived values are properties.
Performance_columns ==
    DOMAIN ZeroCounts \cup
        {"id", "player", "game", "created_by", "created_at", "updated_at", "notes"}
TeamPerformance_columns ==
    (DOMAIN ZeroCounts \ {"minutes_played"}) \cup
        {"id", "team", "game", "created_by", "created_at", "updated_at", "notes"}

\* The names both handlers hand to Count / Avg.
averages_aggregates ==
    {"id", "points", "total_rebounds", "assists", "steals", "blocks",
     "field_goal_percentage", "three_point_percentage", "free_throw_percentage"}

\* QuerySet.aggregate resolves each name against the columns of the table
\* and raises FieldError for a name that is not one.
aggregate(columns) ==
    IF averages_aggregates \subseteq columns THEN "stats" ELSE "FieldError"

AverageActions == {"player_averages", "team_averages"}
\* query parameter player_id / team_id: absent, a player, a team, unknown
IdParams == {"", "P1", "T1", "X9"}
AverageRequests ==
    [pc : {"received"}, user : Clients, action : AverageActions, id : IdParams,
     response : {NoResponse}, aggregated : {0}]

view_permission_classes(action) ==
    IF action = "player_averages" THEN PerformanceViewSet_permission_classes
    ELSE TeamPerformanceViewSet_permission_classes

\* APIView.initial: check_permissions over the classes of the view set
APIView_initial(w) ==
    /\ requests[w].pc = "received"
    /\ IF \E class \in view_permission_classes(requests[w].action) :
            class = "IsAuthenticated" /\ ~IsAuthenticated(requests[w].user)
       THEN Answer(w, Response("403", "", "", ""))
       ELSE requests' = [requests EXCEPT ![w].pc = "handler"]
    /\ UNCHANGED <<role, users, players, teams, games, performances, team_performances, next_id,
                   response, calc>>

\* Avg over the rows `keys` of a table: None (SQL NULL) over no row, else the
\* exact quotient, kept as <<sum, number of rows>>.
RECURSIVE SumOver(_, _, _)
SumOver(table, keys, name) ==
    IF keys = {} THEN 0
    ELSE LET k == CHOOSE x \in keys : TRUE
         IN  table[k][name] + SumOver(table, keys \ {k}, name)

Avg(table, keys, name) ==
    IF keys = {} THEN None
    ELSE <<SumOver(table, keys, name), Cardinality(keys)>>

\* The keys of the statistics and the names they aggregate.
averages_keys ==
    [ppg |-> "points", rpg |-> "total_rebounds", apg |-> "assists",
     spg |-> "steals", bpg |-> "blocks", fg_pct |-> "field_goal_percentage",
     three_pct |-> "three_point_percentage", ft_pct |-> "free_throw_percentage"]

\* filter(...).aggregate(games=Count('id'), ppg=Avg('points'), ...)
aggregate_stats(table, keys) ==
    [games |-> Cardinality(keys)] @@
    [key \in DOMAIN averages_keys |-> Avg(table, keys, averages_keys[key])]

\* round(total_wins / total_games, 3), in thousandths
round3(wins, total) ==
    LET q == (1000 * wins) \div total
        r == (1000 * wins) % total
    IN  IF 2 * r < total THEN q
        ELSE IF 2 * r > total THEN q + 1
        ELSE IF q % 2 = 0 THEN q ELSE q + 1

\* The won-loss record team_averages adds to the statistics.
team_record(team) ==
    LET home_games == {g \in DOMAIN games : games[g].home_team = team}
        away_games == {g \in DOMAIN games : games[g].away_team = team}
        home_wins == Cardinality({g \in home_games :
                        /\ games[g].home_score # None
                        /\ games[g].away_score # None
                        /\ games[g].home_score > games[g].away_score})
        away_wins == Cardinality({g \in away_games :
                        /\ games[g].home_score # None
                        /\ games[g].away_score # None
                        /\ games[g].away_score > games[g].home_score})
        total_games == Cardinality(home_games) + Cardinality(away_games)
        total_wins == home_wins + away_wins
    IN  [wins |-> total_wins,
         losses |-> total_games - total_wins,
         win_percentage |-> IF total_games > 0 THEN round3(total_wins, total_games)
                            ELSE 0]

\* The statistics a handler answers with once the aggregation went through.
player_stats(id) ==
    aggregate_stats(performances,
                    {k \in DOMAIN performances : performances[k].player = id})

team_stats(id) ==
    aggregate_stats(team_performances,
                    {k \in DOMAIN team_performances : team_performances[k].team = id})
    @@ team_record(id)

\* The body of a handler: the parameter, the object, then the aggregation,
\* then the statistics as the body of a 200.
Averages(w, ids, columns) ==
    IF requests[w].id = ""
    THEN Answer(w, Response("400", "required", "", ""))
    ELSE IF requests[w].id \notin ids
    THEN Answer(w, Response("404", "", "", ""))
    ELSE requests' =
           [requests EXCEPT ![w].pc = "done",
                            ![w].aggregated = @ + 1,
                            ![w].response =
                                IF aggregate(columns) = "FieldError"
                                THEN Response("500", "FieldError", "", "")
                                ELSE Response("200", "stats", "",
                                        IF requests[w].action = "player_averages"
                                        THEN player_stats(requests[w].id)
                                        ELSE team_stats(requests[w].id))]

\* PerformanceViewSet.player_averages
PerformanceViewSet_player_averages(w) ==
    /\ requests[w].pc = "handler"
    /\ requests[w].action = "player_averages"
    /\ Averages(w, PlayerIds, Performance_columns)
    /\ UNCHANGED <<role, users, players, teams, games, performances, team_performances, next_id,
                   response, calc>>

\* TeamPerformanceViewSet.team_averages
TeamPerformanceViewSet_team_averages(w) ==
    /\ requests[w].pc = "handler"
    /\ requests[w].action = "team_averages"
    /\ Averages(w, TeamIds, TeamPerformance_columns)
    /\ UNCHANGED <<role, users, players, teams, games, performances, team_performances, next_id,
                   response, calc>>

\* What the tables hold when the requests arrive: no row at all or one row
\* per table, and a game that is scheduled or one that was played.
StoredRow == CHOOSE b \in BoxScores : b.points > 0

InitAvg ==
    /\ role = InitRole
    /\ users = InitUsers
    /\ players = InitPlayers
    /\ teams = [t \in TeamIds |->
                  [coach |-> IF t = "T1" THEN "coach" ELSE NoUser, staff |-> {}]]
    /\ games \in {(1 :> [home_team |-> "T1", away_team |-> "T2", status |-> st,
                         home_score |-> IF st = COMPLETED THEN MaxScore ELSE None,
                         away_score |-> IF st = COMPLETED THEN 0 ELSE None])
                    : st \in {SCHEDULED, COMPLETED}}
    /\ \E n \in {0, 1} :
         /\ performances =
              [k \in 1..n |-> StoredRow @@
                 [player |-> "P1", game |-> 1, created_by |-> "stat"]]
         /\ team_performances =
              [k \in 1..n |-> TeamCounts(StoredRow) @@
                 [team |-> "T1", game |-> 1, created_by |-> "stat"]]
         /\ next_id = [Game |-> 2, Performance |-> n + 1, TeamPerformance |-> n + 1]
    /\ requests \in [Workers -> AverageRequests]
    /\ response = NoResponse
    /\ calc = CalcIdle

NextAvg ==
    \/ \E w \in Workers : APIView_initial(w)
    \/ \E w \in Workers : PerformanceViewSet_player_averages(w)
    \/ \E w \in Workers : TeamPerformanceViewSet_team_averages(w)

SpecAvg == InitAvg /\ [][NextAvg]_vars

-----------------------------------------------------------------------------
(* teams.Player behind PlayerAdmin and PlayerViewSet *)

\* A key that also tells the players of one team and number apart by user.
Player_unique_together_user(row) == <<row.team, row.jersey_number, row.user>>

\* Player.Meta.unique_together
Player_unique_together(row) == <<row.team, row.jersey_number>>

\* The unique check of the pair: it is skipped when the team or the number
\* is null (and the index holds any number of rows with a NULL).
Player_pair_taken(table, pk, row) ==
    /\ row.team # NoTeam
    /\ row.jersey_number # None
    /\ \E k \in (DOMAIN table) \ {pk} :
          Player_unique_together(table[k]) = Player_unique_together(row)

\* Player.user is a OneToOneField.
Player_user_taken(table, pk, row) ==
    \E k \in (DOMAIN table) \ {pk} : table[k].user = row.user

\* What a form or a request body carries for a player.
JerseyNumbers == {None} \cup 1..MaxJersey
PlayerInputs ==
    [user : Users, team : TeamIds \cup {NoTeam}, jersey_number : JerseyNumbers]

\* Validation of the model form of a Player: the user is one with the role
\* player (limit_choices_to), the team exists, the unique checks pass.
PlayerForm_is_valid(pk, data) ==
    /\ data.user \in DOMAIN users
    /\ role[data.user] = PLAYER
    /\ data.team = NoTeam \/ data.team \in DOMAIN teams
    /\ ~Player_user_taken(players, pk, data)
    /\ ~Player_pair_taken(players, pk, data)

\* PlayerAdmin: the add page and the change page, with the default form.
PlayerAdmin_add(pk, data) ==
    /\ pk \in PlayerIds \ DOMAIN players
    /\ IF PlayerForm_is_valid(pk, data)
       THEN /\ players' = players @@ (pk :> data)
            /\ response' = Response("saved", "", "add", pk)
       ELSE /\ response' = Response("form_invalid", "", "add", pk)
            /\ UNCHANGED players
    /\ UNCHANGED <<role, users, teams, games, performances, team_performances,
                   next_id, requests, calc>>

PlayerAdmin_change(pk, data) ==
    /\ pk \in DOMAIN players
    /\ IF PlayerForm_is_valid(pk, data)
       THEN /\ players' = [players EXCEPT ![pk] = data]
            /\ response' = Response("saved", "", "change", pk)
       ELSE /\ response' = Response("form_invalid", "", "change", pk)
            /\ UNCHANGED players
    /\ UNCHANGED <<role, users, teams, games, performances, team_performances,
                   next_id, requests, calc>>

\* The columns and properties of Player, and the names PlayerSerializer lists
\* in Meta.fields: birth_date is neither declared nor an attribute of the
\* model (the column is date_of_birth), so building the fields of the
\* serializer raises ImproperlyConfigured.
Player_attributes ==
    {"id", "user", "team", "jersey_number", "position", "height", "weight",
     "wingspan", "date_of_birth", "active", "created_at", "updated_at"}
PlayerSerializer_declared == {"user_first_name", "user_last_name", "user_email"}
PlayerSerializer_Meta_fields ==
    {"id", "user", "user_first_name", "user_last_name", "user_email", "team",
     "jersey_number", "position", "height", "weight", "active", "birth_date"}

PlayerSerializer_usable ==
    PlayerSerializer_Meta_fields \subseteq (Player_attributes \cup PlayerSerializer_declared)

\* Validation by the serializer: the related rows exist, the user has no
\* profile yet, the UniqueTogetherValidator passes.
PlayerSerializer_is_valid(pk, data) ==
    /\ data.user \in DOMAIN users
    /\ data.team = NoTeam \/ data.team \in DOMAIN teams
    /\ ~Player_user_taken(players, pk, data)
    /\ ~Player_pair_taken(players, pk, data)

\* PlayerViewSet.create
PlayerViewSet_create(user, pk, data) ==
    /\ pk \in PlayerIds \ DOMAIN players
    /\ IF ~IsAuthenticated(user)
       THEN /\ response' = Response("403", "", "create", pk)
            /\ UNCHANGED players
       ELSE IF ~PlayerSerializer_usable
       THEN /\ response' = Response("500", "ImproperlyConfigured", "create", pk)
            /\ UNCHANGED players
       ELSE IF ~PlayerSerializer_is_valid(pk, data)
       THEN /\ response' = Response("400", "", "create", pk)
            /\ UNCHANGED players
       ELSE /\ players' = players @@ (pk :> data)
            /\ response' = Response("201", "", "create", pk)
    /\ UNCHANGED <<role, users, teams, games, performances, team_performances,
                   next_id, requests, calc>>

\* PlayerViewSet.update / partial_update (a PATCH is completed with the
\* columns of the row before it is validated).
PlayerViewSet_update(user, pk, data) ==
    /\ pk \in DOMAIN players
    /\ IF ~IsAuthenticated(user)
       THEN /\ response' = Response("403", "", "update", pk)
            /\ UNCHANGED players
       ELSE IF ~PlayerSerializer_usable
       THEN /\ response' = Response("500", "ImproperlyConfigured", "update", pk)
            /\ UNCHANGED players
       ELSE IF ~PlayerSerializer_is_valid(pk, data)
       THEN /\ response' = Response("400", "", "update", pk)
            /\ UNCHANGED players
       ELSE /\ players' = [players EXCEPT ![pk] = data]
            /\ response' = Response("200", "", "update", pk)
    /\ UNCHANGED <<role, users, teams, games, performances, team_performances,
                   next_id, requests, calc>>

-----------------------------------------------------------------------------
(* The delete end points and the delete pages of the admin site *)

\* TeamViewSet.destroy
TeamViewSet_destroy(user, pk) ==
    /\ IF ~IsAuthenticated(user)
       THEN /\ response' = Response("403", "", "Team", pk)
            /\ UNCHANGED <<role, users, players, teams, games, performances,
                           team_performances>>
       ELSE IF pk \notin DOMAIN teams
       THEN /\ response' = Response("404", "", "Team", pk)
            /\ UNCHANGED <<role, users, players, teams, games, performances,
                           team_performances>>
       ELSE /\ Deleted(Team_delete(Store, pk))
            /\ response' = Response("204", "", "Team", pk)
    /\ UNCHANGED <<next_id, requests, calc>>

\* PlayerViewSet.destroy
PlayerViewSet_destroy(user, pk) ==
    /\ IF ~IsAuthenticated(user)
       THEN /\ response' = Response("403", "", "Player", pk)
            /\ UNCHANGED <<role, users, players, teams, games, performances,
                           team_performances>>
       ELSE IF pk \notin DOMAIN players
       THEN /\ response' = Response("404", "", "Player", pk)
            /\ UNCHANGED <<role, users, players, teams, games, performances,
                           team_performances>>
       ELSE /\ Deleted(Player_delete(Store, {pk}))
            /\ response' = Response("204", "", "Player", pk)
    /\ UNCHANGED <<next_id, requests, calc>>

\* GameViewSet.destroy: get_object runs the filter backends, and the filter
\* set cannot be built over filterset_fields.
GameViewSet_destroy(user, pk) ==
    /\ IF ~IsAuthenticated(user)
       THEN /\ response' = Response("403", "", "Game", pk)
            /\ UNCHANGED <<role, users, players, teams, games, performances,
                           team_performances>>
       ELSE IF ~GameViewSet_filterable
       THEN /\ response' = Response("500", "", "Game", pk)
            /\ UNCHANGED <<role, users, players, teams, games, performances,
                           team_performances>>
       ELSE IF pk \notin DOMAIN games
       THEN /\ response' = Response("404", "", "Game", pk)
            /\ UNCHANGED <<role, users, players, teams, games, performances,
                           team_performances>>
       ELSE /\ Deleted(Game_delete(Store, {pk}))
            /\ response' = Response("204", "", "Game", pk)
    /\ UNCHANGED <<next_id, requests, calc>>

\* GameAdmin: the delete page
GameAdmin_delete(pk) ==
    /\ pk \in DOMAIN games
    /\ Deleted(Game_delete(Store, {pk}))
    /\ response' = Response("deleted", "", "Game", pk)
    /\ UNCHANGED <<next_id, requests, calc>>

\* CustomUserAdmin: the delete page
CustomUserAdmin_delete(pk) ==
    /\ pk \in DOMAIN users
    /\ Deleted(User_delete(Store, pk))
    /\ response' = Response("deleted", "", "User", pk)
    /\ UNCHANGED <<next_id, requests, calc>>

\* The roster: players are added and changed, teams deleted.
InitRoster ==
    /\ InitStore
    /\ calc = CalcIdle

NextRoster ==
    \/ \E pk \in PlayerIds, data \in PlayerInputs : PlayerAdmin_add(pk, data)
    \/ \E pk \in PlayerIds, data \in PlayerInputs : PlayerAdmin_change(pk, data)
    \/ \E user \in Clients, pk \in PlayerIds, data \in PlayerInputs :
          PlayerViewSet_create(user, pk, data)
    \/ \E user \in Clients, pk \in PlayerIds, data \in PlayerInputs :
          PlayerViewSet_update(user, pk, data)
    \/ \E user \in Clients, pk \in PlayerIds : PlayerViewSet_destroy(user, pk)
    \/ \E user \in Clients, pk \in TeamIds : TeamViewSet_destroy(user, pk)

SpecRoster == InitRoster /\ [][NextRoster]_vars

\* The deletes, over a season of three teams, two games and their rows:
\* T1 hosts T2 in game 1, T2 hosts T3 in game 2; P1 plays for T1, P2 for T2.
SeasonTeams == {"T1", "T2", "T3"}
SeasonGames == {1, 2}

SeasonRow(refs) == StoredRow @@ refs
SeasonTeamRow(refs) == TeamCounts(StoredRow) @@ refs

InitDelete ==
    /\ role = InitRole
    /\ users = InitUsers
    /\ players =
         [p \in PlayerIds |->
            IF p = "P1" THEN [user |-> "player", team |-> "T1", jersey_number |-> 1]
            ELSE [user |-> "player2", team |-> "T2", jersey_number |-> 1]]
    /\ teams = [t \in SeasonTeams |->
                  [coach |-> IF t = "T1" THEN "coach" ELSE NoUser,
                   staff |-> IF t = "T1" THEN {"stat"} ELSE {}]]
    /\ games =
         [g \in SeasonGames |->
            IF g = 1
            THEN [home_team |-> "T1", away_team |-> "T2", status |-> COMPLETED,
                  home_score |-> MaxScore, away_score |-> 0]
            ELSE [home_team |-> "T2", away_team |-> "T3", status |-> SCHEDULED,
                  home_score |-> None, away_score |-> None]]
    /\ \E recorder \in {"stat", "admin"} :
         /\ performances =
              [k \in 1..3 |->
                 SeasonRow([player |-> IF k = 1 THEN "P1" ELSE "P2",
                            game |-> IF k = 3 THEN 2 ELSE 1,
                            created_by |-> recorder])]
         /\ team_performances =
              [k \in 1..4 |->
                 SeasonTeamRow([team |-> CASE k = 1 -> "T1"
                                           [] k \in {2, 3} -> "T2"
                                           [] OTHER -> "T3",
                                game |-> IF k <= 2 THEN 1 ELSE 2,
                                created_by |-> recorder])]
    /\ next_id = [Game |-> 3, Performance |-> 4, TeamPerformance |-> 5]
    /\ requests = <<>>
    /\ response = NoResponse
    /\ calc = CalcIdle

NextDelete ==
    \/ \E user \in Clients, pk \in SeasonTeams : TeamViewSet_destroy(user, pk)
    \/ \E user \in Clients, pk \in PlayerIds : PlayerViewSet_destroy(user, pk)
    \/ \E user \in Clients, pk \in SeasonGames : GameViewSet_destroy(user, pk)
    \/ \E pk \in SeasonGames : GameAdmin_delete(pk)
    \/ \E pk \in Users : CustomUserAdmin_delete(pk)
    \/ \E user \in Principals, pk \in Users : UserViewSet_destroy(user, pk)

SpecDelete == InitDelete /\ [][NextDelete]_vars

-----------------------------------------------------------------------------
(* Specification of the Stat Calculator: any record, then its percentage *)

InitCalc ==
    /\ InitStore
    /\ calc \in [model : Models, category : Categories,
                  made : 0..MaxCount, attempted : 0..MaxCount, out : {Pending}]

NextCalc == ReadPercentage

SpecCalc == InitCalc /\ [][NextCalc]_vars

-----------------------------------------------------------------------------
(* C1: a percentage is null exactly when nothing was attempted, and is       *)
(* otherwise the tenth nearest to 100 * made / attempted: it differs from    *)
(* the exact quotient by at most half a tenth.                               *)
C1_PercentageRounded ==
    calc.out # Pending =>
        /\ (calc.out = None) <=> (calc.attempted = 0)
        /\ calc.attempted # 0 =>
              /\ calc.out >= 0
              /\ 2 * Abs(calc.out * calc.attempted - 1000 * calc.made)
                    <= calc.attempted

\* 7 made of 10 attempted reads 70.0
C1_Witness ==
    /\ calc.made = 7 /\ calc.attempted = 10 /\ calc.out = 700

-----------------------------------------------------------------------------
(* C2: total_rebounds of every stored record, and of every representation   *)
(* read back, is offensive_rebounds + defensive_rebounds of that record; no *)
(* row stores a total_rebounds of its own, whatever value a write sent.     *)
Rows == {performances[k] : k \in DOMAIN performances}
TeamRows == {team_performances[k] : k \in DOMAIN team_performances}

C2_TotalRebounds ==
    /\ \A row \in Rows :
          /\ "total_rebounds" \notin DOMAIN row
          /\ Performance_total_rebounds(row) =
                row.offensive_rebounds + row.defensive_rebounds
    /\ \A row \in TeamRows :
          /\ "total_rebounds" \notin DOMAIN row
          /\ TeamPerformance_total_rebounds(row) =
                row.offensive_rebounds + row.defensive_rebounds
    /\ calc # CalcIdle =>
          calc.total_rebounds = calc.offensive_rebounds + calc.defensive_rebounds

\* Every write sends total_rebounds = 40; a row written with 2 offensive and
\* 5 defensive rebounds reads back 7.
C2_Witness ==
    /\ calc # CalcIdle
    /\ calc.model = "TeamPerformance"
    /\ calc.total_rebounds = 7
    /\ \E row \in Rows : Performance_total_rebounds(row) = 7
    /\ \A data \in PerformanceInputs \cup TeamPerformanceInputs :
          data.total_rebounds = 40

-----------------------------------------------------------------------------
(* C3: the winner of a game is its home team when the game is completed,    *)
(* both scores are present and the home score is the greater; its away team *)
(* when completed with the away score the greater; and nobody otherwise.    *)
HomeWon(g) ==
    /\ g.status = COMPLETED /\ g.home_score # None /\ g.away_score # None
    /\ g.home_score > g.away_score
AwayWon(g) ==
    /\ g.status = COMPLETED /\ g.home_score # None /\ g.away_score # None
    /\ g.away_score > g.home_score

C3_Winner ==
    \A pk \in DOMAIN games :
        LET g == games[pk] IN
        /\ HomeWon(g) => Game_winner(g) = g.home_team
        /\ AwayWon(g) => Game_winner(g) = g.away_team
        /\ (~HomeWon(g) /\ ~AwayWon(g)) => Game_winner(g) = NoTeam

\* a live game was saved as completed with the home score the greater
C3_Witness ==
    \E pk \in DOMAIN games :
        /\ HomeWon(games[pk]) /\ Game_winner(games[pk]) = games[pk].home_team
        /\ response.before = LIVE /\ response.status = "saved"

-----------------------------------------------------------------------------
(* C9: an averages request aggregates only after its permission check       *)
(* allowed it; the request of a principal that is denied is answered 403,   *)
(* never 200, and aggregates nothing.                                        *)
C9_AuthorizeBeforeAggregate ==
    \A w \in Workers :
        /\ requests[w].aggregated > 0 =>
              /\ requests[w].pc = "done"
              /\ IsAuthenticated(requests[w].user)
        /\ requests[w].user = AnonymousUser =>
              /\ requests[w].aggregated = 0
              /\ requests[w].pc # "handler"
              /\ requests[w].pc = "done" => requests[w].response.status = "403"

\* One request was refused, the other one went on to the aggregation.
C9_Witness ==
    \E w, v \in Workers :
        /\ requests[w].user = AnonymousUser
        /\ requests[w].response.status = "403"
        /\ requests[w].id \in TeamIds
        /\ requests[v].user = "player"
        /\ requests[v].aggregated = 1

-----------------------------------------------------------------------------
(* C11 as stated: an averages request for a player (a team) that exists    *)
(* and has no Performance (TeamPerformance) row is answered 200 with       *)
(* games = 0 and null for every average.                                    *)
Served(w) == requests[w].pc = "done" /\ IsAuthenticated(requests[w].user)

NoRows(w) ==
    IF requests[w].action = "player_averages"
    THEN /\ requests[w].id \in PlayerIds
         /\ \A k \in DOMAIN performances : performances[k].player # requests[w].id
    ELSE /\ requests[w].id \in TeamIds
         /\ \A k \in DOMAIN team_performances :
               team_performances[k].team # requests[w].id

C11_NoRowsNullAverages ==
    \A w \in Workers : (Served(w) /\ NoRows(w)) =>
        /\ requests[w].response.status = "200"
        /\ requests[w].response.after.games = 0
        /\ \A key \in DOMAIN averages_keys : requests[w].response.after[key] = None

-----------------------------------------------------------------------------
(* C12 as stated: a team-averages request for a team none of whose games   *)
(* is completed is answered with wins = 0, losses = 0, win_percentage = 0. *)
NoCompletedGame(team) ==
    \A g \in DOMAIN games :
        team \in {games[g].home_team, games[g].away_team}
            => games[g].status # COMPLETED

C12_NoCompletedGameZeroRecord ==
    \A w \in Workers :
        (/\ Served(w)
         /\ requests[w].action = "team_averages"
         /\ requests[w].id \in TeamIds
         /\ NoCompletedGame(requests[w].id)) =>
            /\ requests[w].response.status = "200"
            /\ requests[w].response.after.wins = 0
            /\ requests[w].response.after.losses = 0
            /\ requests[w].response.after.win_percentage = 0

-----------------------------------------------------------------------------
(* C21 as stated: the record a team-averages request is answered with has   *)
(* wins = the home games won plus the away games won, losses = the games    *)
(* considered minus the wins, and win_percentage = wins / games considered  *)
(* rounded to 3 decimals, or 0 when no game is considered.                  *)
TeamServed(w) ==
    /\ Served(w)
    /\ requests[w].action = "team_averages"
    /\ requests[w].id \in TeamIds

Scored(g) == games[g].home_score # None /\ games[g].away_score # None

HomeWins(team) ==
    {g \in DOMAIN games : /\ games[g].home_team = team
                          /\ Scored(g)
                          /\ games[g].home_score > games[g].away_score}

AwayWins(team) ==
    {g \in DOMAIN games : /\ games[g].away_team = team
                          /\ Scored(g)
                          /\ games[g].away_score > games[g].home_score}

Considered(team) ==
    Cardinality({g \in DOMAIN games : games[g].home_team = team})
    + Cardinality({g \in DOMAIN games : games[g].away_team = team})

C21_TeamRecord ==
    \A w \in Workers : TeamServed(w) =>
        LET team == requests[w].id
            wins == Cardinality(HomeWins(team)) + Cardinality(AwayWins(team))
        IN  /\ requests[w].response.status = "200"
            /\ requests[w].response.after.wins = wins
            /\ requests[w].response.after.losses = Considered(team) - wins
            /\ requests[w].response.after.win_percentage =
                 IF Considered(team) = 0 THEN 0 ELSE round3(wins, Considered(team))

-----------------------------------------------------------------------------
(* C22 as stated: for a player or a team with at least one row, each        *)
(* averaged percentage is the mean of the per-game percentages of the rows  *)
(* that have an attempt of that shot type, and null when no row has one.    *)
RowsOf(w) ==
    IF requests[w].action = "player_averages"
    THEN {k \in DOMAIN performances : performances[k].player = requests[w].id}
    ELSE {k \in DOMAIN team_performances : team_performances[k].team = requests[w].id}

TableOf(w) ==
    IF requests[w].action = "player_averages" THEN performances ELSE team_performances

HasRows(w) ==
    /\ Served(w)
    /\ requests[w].id \in (IF requests[w].action = "player_averages"
                           THEN PlayerIds ELSE TeamIds)
    /\ RowsOf(w) # {}

ModelOf(w) ==
    IF requests[w].action = "player_averages" THEN "Performance" ELSE "TeamPerformance"

ShotType(key) ==
    CASE key = "fg_pct" -> "field_goal"
      [] key = "three_pct" -> "three_point"
      [] key = "ft_pct" -> "free_throw"

RECURSIVE SumOf(_, _)
SumOf(f, keys) ==
    IF keys = {} THEN 0
    ELSE LET k == CHOOSE x \in keys : TRUE IN f[k] + SumOf(f, keys \ {k})

MeanPercentage(w, key) ==
    LET pct == [k \in RowsOf(w) |-> Percentage(ModelOf(w), ShotType(key), TableOf(w)[k])]
        shot == {k \in RowsOf(w) : pct[k] # None}
    IN  IF shot = {} THEN None ELSE <<SumOf(pct, shot), Cardinality(shot)>>

C22_PercentagesAveragedPerGame ==
    \A w \in Workers : HasRows(w) =>
        /\ requests[w].response.status = "200"
        /\ \A key \in {"fg_pct", "three_pct", "ft_pct"} :
              requests[w].response.after[key] = MeanPercentage(w, key)

-----------------------------------------------------------------------------
(* C23 as stated: for a player with n >= 1 rows the player-averages answer  *)
(* has games = n and the mean over the player's n rows of points, total     *)
(* rebounds, assists, steals, blocks, turnovers and minutes played.         *)
Averaged(name) == \E key \in DOMAIN averages_keys : averages_keys[key] = name

MeanOver(w, name) ==
    LET value == [k \in RowsOf(w) |->
                    IF name = "total_rebounds"
                    THEN Performance_total_rebounds(performances[k])
                    ELSE performances[k][name]]
    IN  <<SumOf(value, RowsOf(w)), Cardinality(RowsOf(w))>>

C23_PlayerAverages ==
    \A w \in Workers : (HasRows(w) /\ requests[w].action = "player_averages") =>
        /\ requests[w].response.status = "200"
        /\ requests[w].response.after.games = Cardinality(RowsOf(w))
        /\ \A name \in {"points", "total_rebounds", "assists", "steals", "blocks",
                        "turnovers", "minutes_played"} :
              /\ Averaged(name)
              /\ \A key \in DOMAIN averages_keys : averages_keys[key] = name =>
                    requests[w].response.after[key] = MeanOver(w, name)

-----------------------------------------------------------------------------
(* C29 as stated: the wins a team-averages request reports are the games    *)
(* whose winner, as Game.winner tells it, is the team, and the wins and the *)
(* losses together count each game the team plays in once.                  *)
C29_WinsAreWinners ==
    \A w \in Workers : TeamServed(w) =>
        LET team == requests[w].id IN
        /\ requests[w].response.status = "200"
        /\ requests[w].response.after.wins =
             Cardinality({g \in DOMAIN games : Game_winner(games[g]) = team})
        /\ requests[w].response.after.wins + requests[w].response.after.losses =
             Cardinality({g \in DOMAIN games :
                            team \in {games[g].home_team, games[g].away_team}})

-----------------------------------------------------------------------------
(* C25 as stated: in every reachable state the home team and the away team  *)
(* of every game are different teams.                                       *)
C25_DistinctTeams ==
    \A g \in DOMAIN games : games[g].home_team # games[g].away_team

-----------------------------------------------------------------------------
(* C26 as stated: in every reachable state a game that is not completed has *)
(* both scores null, and every score that is present is a non-negative      *)
(* integer.                                                                  *)
C26_ScoresOnlyWhenCompleted ==
    \A g \in DOMAIN games :
        /\ games[g].status # COMPLETED =>
              (games[g].home_score = None /\ games[g].away_score = None)
        /\ \A score \in {games[g].home_score, games[g].away_score} :
              score # None => score \in Nat

-----------------------------------------------------------------------------
(* C27: after any step no two players of one team wear the same number,     *)
(* null teams and null numbers apart, and a write whose team and number are *)
(* those of another player changes no player.                               *)
JerseysDistinct(table) ==
    \A p, q \in DOMAIN table :
        (/\ p # q
         /\ table[p].team # NoTeam
         /\ table[p].team = table[q].team
         /\ table[p].jersey_number # None) =>
            table[p].jersey_number # table[q].jersey_number

WouldDuplicate(pk, data) ==
    /\ data.team # NoTeam
    /\ data.jersey_number # None
    /\ \E k \in (DOMAIN players) \ {pk} :
          /\ players[k].team = data.team
          /\ players[k].jersey_number = data.jersey_number

C27_JerseyUniqueInTeam ==
    [][/\ JerseysDistinct(players')
       /\ \/ players' = players
          \/ \A pk \in PlayerIds, data \in PlayerInputs : WouldDuplicate(pk, data) =>
                /\ ~PlayerAdmin_add(pk, data)
                /\ ~PlayerAdmin_change(pk, data)
                /\ \A user \in Clients :
                      /\ ~PlayerViewSet_create(user, pk, data)
                      /\ ~PlayerViewSet_update(user, pk, data)
      ]_vars

\* Two players of one team, each with a number, and a form just refused.
C27_Witness ==
    /\ response.status = "form_invalid"
    /\ \E p, q \in DOMAIN players :
          /\ p # q
          /\ players[p].team # NoTeam
          /\ players[p].team = players[q].team
          /\ players[p].jersey_number # None
          /\ players[q].jersey_number # None

-----------------------------------------------------------------------------
(* C28: after every step each performance refers to a stored player and a   *)
(* stored game and each player's team is null or a stored team; the step    *)
(* that deletes a game leaves no row of that game, the step that deletes a  *)
(* team keeps its players with a null team, and the step that deletes a     *)
(* user keeps the rows the user recorded, counts unchanged, with            *)
(* created_by null.                                                          *)
NoDangling(ps, ts, gs, perfs, tperfs) ==
    /\ \A k \in DOMAIN perfs :
          perfs[k].player \in DOMAIN ps /\ perfs[k].game \in DOMAIN gs
    /\ \A k \in DOMAIN tperfs : tperfs[k].game \in DOMAIN gs
    /\ \A p \in DOMAIN ps : ps[p].team = NoTeam \/ ps[p].team \in DOMAIN ts

-----------------------------------------------------------------------------
(* C30: the step that deletes a team deletes the games it plays in, home or *)
(* away, the team performances of the team, and every performance and team  *)
(* performance of those games; the other games and the rows of the other    *)
(* games are left as they were.                                             *)
C30_TeamDeleteCascades ==
    [][\A t \in (DOMAIN teams) \ DOMAIN teams' :
         LET gone == {g \in DOMAIN games :
                        t \in {games[g].home_team, games[g].away_team}}
         IN  /\ games' = [g \in (DOMAIN games) \ gone |-> games[g]]
             /\ performances' =
                  [k \in {r \in DOMAIN performances : performances[r].game \notin gone}
                     |-> performances[k]]
             /\ team_performances' =
                  [k \in {r \in DOMAIN team_performances :
                            /\ team_performances[r].game \notin gone
                            /\ team_performances[r].team # t}
                     |-> team_performances[k]]
      ]_vars

\* T1 is deleted: game 1 went with the rows of T2 and of P2 for it, game 2
\* and its rows stay.
C30_Witness ==
    /\ "T1" \notin DOMAIN teams
    /\ DOMAIN games = {2}
    /\ DOMAIN performances = {3}
    /\ DOMAIN team_performances = {3, 4}
    /\ {"T2", "T3"} \subseteq DOMAIN teams

-----------------------------------------------------------------------------
(* C24 as stated: a step never changes the player and the game of a stored  *)
(* Performance, nor the team and the game of a stored TeamPerformance.      *)
C24_IdentityImmutable ==
    [][/\ \A k \in (DOMAIN performances) \cap DOMAIN performances' :
             /\ performances'[k].player = performances[k].player
             /\ performances'[k].game = performances[k].game
       /\ \A k \in (DOMAIN team_performances) \cap DOMAIN team_performances' :
             /\ team_performances'[k].team = team_performances[k].team
             /\ team_performances'[k].game = team_performances[k].game
      ]_vars

-----------------------------------------------------------------------------
(* C10 as stated: over any update the status of a game stays where it is or *)
(* moves scheduled -> live -> completed, or scheduled/live -> cancelled.    *)
StatusMove(s, t) ==
    \/ s = t
    \/ s = SCHEDULED /\ t \in {LIVE, CANCELLED}
    \/ s = LIVE /\ t \in {COMPLETED, CANCELLED}

C10_Monotonic ==
    [][\A pk \in DOMAIN games :
          pk \in DOMAIN games' => StatusMove(games[pk].status, games'[pk].status)]_vars

(* C10 as amended: the status of every game is always one of the four       *)
(* choices; no order among them is enforced.                                *)
C10_StatusInChoices ==
    \A pk \in DOMAIN games : games[pk].status \in STATUS_CHOICES

\* a completed game was put back to scheduled
C10_Witness ==
    /\ response.status = "saved"
    /\ response.before = COMPLETED
    /\ response.after = SCHEDULED
    /\ \E pk \in DOMAIN games : games[pk].status = SCHEDULED

-----------------------------------------------------------------------------
(* C4: after every operation no two Performance rows have the same          *)
(* (player, game) and no two TeamPerformance rows the same (team, game); a  *)
(* create for a pair that has a row is refused as a uniqueness conflict     *)
(* and changes no row.                                                      *)
Authenticated == Clients \ {AnonymousUser}

DistinctPairs(table, subject) ==
    \A j, k \in DOMAIN table :
        (table[j][subject] = table[k][subject] /\ table[j].game = table[k].game)
            => j = k

HasPair(table, subject, data) ==
    \E k \in DOMAIN table :
        table[k][subject] = data[subject] /\ table[k].game = data.game

Conflict(resp) == resp.status = "400" /\ resp.code = "unique"

C4_UniquePairs ==
    [][/\ DistinctPairs(performances', "player")
       /\ DistinctPairs(team_performances', "team")
       /\ \/ /\ Conflict(response')
             /\ performances' = performances
             /\ team_performances' = team_performances
          \/ /\ \A data \in PerformanceInputs :
                  HasPair(performances, "player", data) =>
                     \A user \in Authenticated :
                        ~PerformanceViewSet_create(user, data)
             /\ \A data \in TeamPerformanceInputs :
                  HasPair(team_performances, "team", data) =>
                     \A user \in Authenticated :
                        ~TeamPerformanceViewSet_create(user, data)
      ]_vars

\* a create was refused for its pair while both tables hold two rows
C4_Witness ==
    /\ Conflict(response)
    /\ Cardinality(DOMAIN performances) = 2
    /\ Cardinality(DOMAIN team_performances) = 2

-----------------------------------------------------------------------------
(* C5: of the concurrent creates of a Performance for one (player, game)    *)
(* pair, in every interleaving exactly one succeeds and each other one      *)
(* fails on the uniqueness of the pair (the validation error of the         *)
(* serializer or the IntegrityError of the unique index); the table holds   *)
(* one row for the pair, with the counts of the successful create.          *)
SamePair(w, v) ==
    /\ requests[w].data.player = requests[v].data.player
    /\ requests[w].data.game = requests[v].data.game

Succeeded(w) == requests[w].pc = "done" /\ requests[w].response.status = "201"

UniquenessFailure(w) ==
    /\ requests[w].pc = "done"
    /\ \/ Conflict(requests[w].response)
       \/ /\ requests[w].response.status = "500"
          /\ requests[w].response.code = "IntegrityError"

\* A create that is authenticated and names a player and a game that exist.
Creating(w) ==
    /\ IsAuthenticated(requests[w].user)
    /\ requests[w].data.player \in PlayerIds
    /\ requests[w].data.game \in DOMAIN games

Competing(w) == {v \in Workers : Creating(v) /\ SamePair(w, v)}

C5_OneCreateWins ==
    \A w \in Workers : Creating(w) =>
        /\ Cardinality({v \in Competing(w) : Succeeded(v)}) <= 1
        /\ Succeeded(w) =>
              /\ \E k \in DOMAIN performances :
                    performances[k] = RequestRow(requests[w])
              /\ \A j, k \in DOMAIN performances :
                    (performances[j].player = performances[k].player
                     /\ performances[j].game = performances[k].game) => j = k
        /\ (\A v \in Competing(w) : requests[v].pc = "done") =>
              /\ Cardinality({v \in Competing(w) : Succeeded(v)}) = 1
              /\ \A v \in Competing(w) : Succeeded(v) \/ UniquenessFailure(v)

\* Both requests passed the validation before either inserted; the second
\* insert hit the unique index. The two bodies carry different counts.
C5_Witness ==
    /\ requests[1].response.code = "IntegrityError"
    /\ Succeeded(2)
    /\ SamePair(1, 2)
    /\ requests[1].data.counts # requests[2].data.counts

-----------------------------------------------------------------------------
(* C6 as stated: every check of IsAdmin, IsStaff, IsTeamCoach,              *)
(* IsTeamStatistician and IsTeamMember made for a principal whose role is   *)
(* admin passes, and the view goes on.                                      *)
AdminChecks ==
    {"IsAdmin", "IsStaff", "IsTeamCoach", "IsTeamStatistician", "IsTeamMember"}

C6_AdminPasses ==
    (/\ response.before \in AdminChecks
     /\ response.after \in Users
     /\ role[response.after] = ADMIN_ROLE)
        => (response.code = "True" /\ response.status = "200")

-----------------------------------------------------------------------------
(* C13 as stated: a create, update, partial_update or destroy of a user by  *)
(* an authenticated principal whose role is not admin is answered 403 and   *)
(* leaves the users, their roles and their columns as they were.            *)
NonAdmins == {u \in Users : role[u] # ADMIN_ROLE}

UsersUntouched == users' = users /\ role' = role

C13_NonAdminWritesForbidden ==
    [][\A user \in NonAdmins :
         /\ \A data \in UserBodies :
              UserViewSet_create(user, "new_user", data)
                 => (response'.status = "403" /\ UsersUntouched)
         /\ \A pk \in Users, data \in UserBodies :
              (\/ UserViewSet_update(user, pk, data)
               \/ UserViewSet_partial_update(user, pk, data))
                 => (response'.status = "403" /\ UsersUntouched)
         /\ \A pk \in Users :
              UserViewSet_destroy(user, pk)
                 => (response'.status = "403" /\ UsersUntouched)
      ]_vars

-----------------------------------------------------------------------------
(* C14 as stated: list is answered 200 for a coach, a statistician and an   *)
(* admin and 403 for a player; retrieve and me are answered 200 for every   *)
(* authenticated principal.                                                  *)
C14_ListForStaffOnly ==
    [][\A user \in Users :
         /\ UserViewSet_list(user) =>
              response'.status = IF role[user] = PLAYER THEN "403" ELSE "200"
         /\ UserViewSet_me(user) => response'.status = "200"
         /\ \A pk \in Users : UserViewSet_retrieve(user, pk) => response'.status = "200"
      ]_vars

-----------------------------------------------------------------------------
(* C15 as stated: IsTeamCoach passes for a user and a team exactly when the *)
(* user's role is admin, or it is coach and the team's coach is the user.   *)
Passes(resp) == resp.code = "True"

C15_IsTeamCoach ==
    [][\A user \in Users, pk \in TeamIds :
         check_object_permissions("IsTeamCoach", user, pk) =>
            (Passes(response') <=>
                \/ role[user] = ADMIN_ROLE
                \/ role[user] = COACH /\ teams[pk].coach = user)
      ]_vars

-----------------------------------------------------------------------------
(* C16 as stated: IsTeamStatistician passes for a user and a team exactly   *)
(* when the user's role is admin, or it is statistician and the user is in  *)
(* the staff of the team.                                                    *)
C16_IsTeamStatistician ==
    [][\A user \in Users, pk \in TeamIds :
         check_object_permissions("IsTeamStatistician", user, pk) =>
            (Passes(response') <=>
                \/ role[user] = ADMIN_ROLE
                \/ role[user] = STATISTICIAN /\ user \in teams[pk].staff)
      ]_vars

-----------------------------------------------------------------------------
(* C17 as stated: IsTeamMember passes for a user and a team exactly when    *)
(* the user is admin, the coach of the team, a statistician on its staff,   *)
(* or a player whose profile has that team.                                  *)
PlaysFor(user, pk) ==
    /\ role[user] = PLAYER
    /\ \E p \in DOMAIN players : players[p].user = user /\ players[p].team = pk

C17_IsTeamMember ==
    [][\A user \in Users, pk \in TeamIds :
         check_object_permissions("IsTeamMember", user, pk) =>
            (Passes(response') <=>
                \/ role[user] = ADMIN_ROLE
                \/ role[user] = COACH /\ teams[pk].coach = user
                \/ role[user] = STATISTICIAN /\ user \in teams[pk].staff
                \/ PlaysFor(user, pk))
      ]_vars

-----------------------------------------------------------------------------
(* C18 as stated: the created_by of every stored Performance and            *)
(* TeamPerformance row is null or a user whose role is statistician or      *)
(* admin (the roles do not change while the rows are written).              *)
Recorders == {u \in Users : role[u] \in {STATISTICIAN, ADMIN_ROLE}}

C18_CreatedByRecorder ==
    /\ \A k \in DOMAIN performances :
          performances[k].created_by \in Recorders \cup {NoUser}
    /\ \A k \in DOMAIN team_performances :
          team_performances[k].created_by \in Recorders \cup {NoUser}

-----------------------------------------------------------------------------
(* C19 as stated: an update of a team by a coach or a statistician is       *)
(* applied when the user is the team's own coach, and is refused, the team  *)
(* unchanged, when the user is a coach of another team or a statistician    *)
(* who is not on the staff of the team.                                     *)
ObjectCheckPasses(user, pk) ==
    \/ role[user] = COACH /\ teams[pk].coach = user
    \/ role[user] = STATISTICIAN /\ user \in teams[pk].staff

C19_TeamUpdateByObjectCheck ==
    [][\A user \in Users : role[user] \in {COACH, STATISTICIAN} =>
         \A pk \in TeamIds, staff \in SUBSET Users :
            TeamViewSet_update(user, pk, staff) =>
               /\ teams[pk].coach = user =>
                    (response'.status = "200" /\ teams'[pk].staff = staff)
               /\ ~ObjectCheckPasses(user, pk) =>
                    (response'.status = "403" /\ teams' = teams)
      ]_vars

-----------------------------------------------------------------------------
(* C20 as stated: update_me stores the submitted first_name, last_name,     *)
(* email, phone number and password (hashed) of the requesting user and     *)
(* changes nothing else: not the user's role or is_active, not another      *)
(* user, whatever the body holds.                                            *)
Submitted(data, key, old) == IF key \in DOMAIN data THEN data[key] ELSE old

C20_UpdateMeFrame ==
    [][\A user \in Users, data \in UserBodies :
         UserViewSet_update_me(user, data) =>
            /\ response'.status = "200"
            /\ role' = role
            /\ \A u \in Users \ {user} : users'[u] = users[u]
            /\ users'[user].is_active = users[user].is_active
            /\ users'[user].first_name = Submitted(data, "first_name", users[user].first_name)
            /\ users'[user].last_name = Submitted(data, "last_name", users[user].last_name)
            /\ users'[user].email = Submitted(data, "email", users[user].email)
            /\ users'[user].phone = Submitted(data, "phone_number", users[user].phone)
            /\ users'[user].password =
                 IF "password" \in DOMAIN data THEN make_password(data.password)
                 ELSE users[user].password
      ]_vars

-----------------------------------------------------------------------------
(* C7 as stated: every create, update or delete a player sends is refused   *)
(* and leaves the stored rows as they were.                                 *)
Refused(resp) == resp.status = "403"

C7_PlayerNeverWrites ==
    [][\A user \in Users : role[user] = PLAYER =>
         /\ \A data \in PerformanceInputs :
              PerformanceViewSet_create(user, data)
                => (Refused(response') /\ performances' = performances)
         /\ \A pk \in DOMAIN performances, data \in PerformanceInputs :
              PerformanceViewSet_update(user, pk, data)
                => (Refused(response') /\ performances' = performances)
         /\ \A pk \in DOMAIN performances :
              PerformanceViewSet_destroy(user, pk)
                => (Refused(response') /\ performances' = performances)
         /\ \A data \in TeamPerformanceInputs :
              TeamPerformanceViewSet_create(user, data)
                => (Refused(response') /\ team_performances' = team_performances)
         /\ \A pk \in DOMAIN team_performances, data \in TeamPerformanceInputs :
              TeamPerformanceViewSet_update(user, pk, data)
                => (Refused(response') /\ team_performances' = team_performances)
         /\ \A pk \in DOMAIN team_performances :
              TeamPerformanceViewSet_destroy(user, pk)
                => (Refused(response') /\ team_performances' = team_performances)
         /\ \A pk \in TeamIds, staff \in SUBSET Users :
              TeamViewSet_update(user, pk, staff)
                => (Refused(response') /\ teams' = teams)
      ]_vars

-----------------------------------------------------------------------------
(* C8 as stated: a statistician's update of a TeamPerformance is refused,   *)
(* and the row unchanged, while the statistician is not on the staff of the *)
(* row's team, and is not refused while on it.                              *)
C8_StaffDecides ==
    [][\A user \in Users : role[user] = STATISTICIAN =>
         \A pk \in DOMAIN team_performances, data \in TeamPerformanceInputs :
            TeamPerformanceViewSet_update(user, pk, data) =>
               IF user \in teams[team_performances[pk].team].staff
               THEN ~Refused(response')
               ELSE Refused(response') /\ team_performances' = team_performances
      ]_vars

=============================================================================
